---- MODULE Spec2Model ----
(***************************************************************************)
(* A model of the chat widget of src/src/Chatbot.tsx: the transcript       *)
(* store (React state `messages`, persisted to the localStorage slot       *)
(* 'chatMessages'), the natural-language rewriter and the command          *)
(* dispatcher that runs in a 2000 ms timer callback.                       *)
(*                                                                         *)
(* JavaScript strings are sequences of one-character strings, so that      *)
(* trim, split, replace, startsWith and toLowerCase are computed.          *)
(* A character that has no spelling in a TLA+ string is named by its code   *)
(* point, as in "U+2028". The characters are those of U+0000..U+00FF and   *)
(* the white space beyond.                                                 *)
(* JavaScript values (pluginName, pluginData, response bodies) are tagged  *)
(* records [t |-> type, v |-> payload]: undefined, null, booleans,         *)
(* strings, numbers, objects and arrays.                                   *)
(***************************************************************************)
EXTENDS Integers, Sequences, FiniteSets, TLC

VARIABLES
    mounted,    \* whether the component is mounted (a page is loaded)
    messages,   \* useState<Message[]>: the transcript
    input,      \* useState<string>: the input field
    loading,    \* useState<boolean>
    stored,     \* localStorage slot 'chatMessages': absent, the JSON written, or foreign
    pending,    \* closures of handleSend awaiting their timer or their HTTP reply
    clock,      \* what new Date() reads
    nextId,     \* the next token uuidv4() hands out
    text,       \* rewriter check: the argument of parseNaturalLanguage
    parsed,     \* rewriter check: what parseNaturalLanguage returned
    crashed,    \* an exception left the component's construction or render
    notArray,   \* what `messages` holds when it is no array, else Undefined
    effectDue   \* a render is committed and its effect of lines 25-28 has not run

vars == <<mounted, messages, input, loading, stored, pending, clock, nextId, text, parsed, crashed, notArray, effectDue>>

----------------------------------------------------------------------------
(* Bounds of the model *)

MaxMessages == 4
MaxClock == 1
MaxTail == 3
MaxIds == 7

----------------------------------------------------------------------------
(* String literals of the source *)

S_weather_in == <<"w","e","a","t","h","e","r"," ","i","n">>
S_what_is == <<"w","h","a","t"," ","i","s">>
S_calculate == <<"c","a","l","c","u","l","a","t","e">>
S_define == <<"d","e","f","i","n","e">>
S_what_does == <<"w","h","a","t"," ","d","o","e","s">>
S_mean == <<"m","e","a","n">>
CMD_weather == <<"/","w","e","a","t","h","e","r">>
CMD_calc == <<"/","c","a","l","c">>
CMD_define == <<"/","d","e","f","i","n","e">>
TypingText == <<"T","y","p","i","n","g",".",".",".">>
ProvideCityText == <<"P","l","e","a","s","e"," ","p","r","o","v","i","d","e"," ","a"," ","c","i","t","y",".">>
WeatherErrorText == <<"C","i","t","y"," ","n","o","t"," ","f","o","u","n","d"," ","o","r"," ","A","P","I"," ","e","r","r","o","r",".">>
InvalidExpressionText == <<"I","n","v","a","l","i","d"," ","e","x","p","r","e","s","s","i","o","n">>
DefineErrorText == <<"E","r","r","o","r"," ","f","e","t","c","h","i","n","g"," ","d","e","f","i","n","i","t","i","o","n">>
UnrecognizedText == <<"U","n","r","e","c","o","g","n","i","z","e","d"," ","c","o","m","m","a","n","d",".">>
DefinitionNotFoundText == <<"D","e","f","i","n","i","t","i","o","n"," ","n","o","t"," ","f","o","u","n","d">>
S_Weather_in == <<"W","e","a","t","h","e","r"," ","i","n"," ">>
S_Result == <<"R","e","s","u","l","t",":"," ">>
S_Definition_of == <<"D","e","f","i","n","i","t","i","o","n"," ","o","f"," ">>
S_degC == <<"°","C">>
S_undefined == <<"u","n","d","e","f","i","n","e","d">>
S_Infinity == <<"I","n","f","i","n","i","t","y">>

----------------------------------------------------------------------------
(* String.prototype operations, on sequences of characters *)

\* toLowerCase: A-Z, and of U+0080..U+00FF the letters U+00C0..U+00DE
UpperCase ==
    <<"A","B","C","D","E","F","G","H","I","J","K","L","M","N","O","P","Q","R","S","T","U","V","W","X","Y","Z",
      "À","Á","Â","Ã","Ä","Å","Æ","Ç","È","É","Ê","Ë","Ì","Í","Î",
      "Ï","Ð","Ñ","Ò","Ó","Ô","Õ","Ö","Ø","Ù","Ú","Û","Ü","Ý","Þ">>
LowerCase ==
    <<"a","b","c","d","e","f","g","h","i","j","k","l","m","n","o","p","q","r","s","t","u","v","w","x","y","z",
      "à","á","â","ã","ä","å","æ","ç","è","é","ê","ë","ì","í","î",
      "ï","ð","ñ","ò","ó","ô","õ","ö","ø","ù","ú","û","ü","ý","þ">>

\* trim: the white space and the line terminators of ECMAScript
Whitespace ==
    {" ", "\t", "\n", "\f", "\r", "U+000B", "U+00A0", "U+1680",
     "U+2000", "U+2001", "U+2002", "U+2003", "U+2004", "U+2005", "U+2006",
     "U+2007", "U+2008", "U+2009", "U+200A", "U+2028", "U+2029", "U+202F",
     "U+205F", "U+3000", "U+FEFF"}
Punctuation == {"?", ".", ","}

toLowerChar(c) ==
    IF \E i \in 1..Len(UpperCase) : UpperCase[i] = c
    THEN LowerCase[CHOOSE i \in 1..Len(UpperCase) : UpperCase[i] = c]
    ELSE c

toLowerCase(s) == [i \in 1..Len(s) |-> toLowerChar(s[i])]

\* p occurs in s at (1-based) position i
matchesAt(s, p, i) ==
    /\ i >= 1
    /\ i + Len(p) - 1 <= Len(s)
    /\ \A k \in 1..Len(p) : s[i + k - 1] = p[k]

\* The position of the first occurrence of p in s at or after from; 0 when none
indexOfFrom(s, p, from) ==
    IF \E i \in from..Len(s) + 1 : matchesAt(s, p, i)
    THEN CHOOSE i \in from..Len(s) + 1 :
            /\ matchesAt(s, p, i)
            /\ \A j \in from..(i - 1) : ~matchesAt(s, p, j)
    ELSE 0

includes(s, p) == indexOfFrom(s, p, 1) # 0

startsWith(s, p) == matchesAt(s, p, 1)

trim(s) ==
    IF \A i \in 1..Len(s) : s[i] \in Whitespace
    THEN <<>>
    ELSE LET first == CHOOSE i \in 1..Len(s) :
                          /\ s[i] \notin Whitespace
                          /\ \A j \in 1..(i - 1) : s[j] \in Whitespace
             last  == CHOOSE i \in 1..Len(s) :
                          /\ s[i] \notin Whitespace
                          /\ \A j \in (i + 1)..Len(s) : s[j] \in Whitespace
         IN SubSeq(s, first, last)

\* s.replace(/[?.,]/g, ''): every punctuation character is removed
removePunctuation(s) == SelectSeq(s, LAMBDA c : c \notin Punctuation)

\* s.split(sep)[1]: the piece between the first occurrence of sep and the next
\* one (or the end). Only used where s includes sep.
splitSecond(s, sep) ==
    LET i == indexOfFrom(s, sep, 1)
        rest == SubSeq(s, i + Len(sep), Len(s))
        j == indexOfFrom(rest, sep, 1)
    IN IF j = 0 THEN rest ELSE SubSeq(rest, 1, j - 1)

\* s.replace(p, ''), p a string: only the first occurrence is removed
removeFirst(s, p) ==
    LET i == indexOfFrom(s, p, 1)
    IN IF i = 0 THEN s
       ELSE SubSeq(s, 1, i - 1) \o SubSeq(s, i + Len(p), Len(s))

\* Mutant: the g flag is missing, only the leftmost match is removed
RECURSIVE removeLeftmostCI(_, _)
removeLeftmostCI(s, alts) ==
    IF s = <<>> THEN <<>>
    ELSE LET lower == toLowerCase(s)
             hits == {k \in 1..Len(alts) : matchesAt(lower, alts[k], 1)}
         IN IF hits = {}
            THEN <<s[1]>> \o removeLeftmostCI(Tail(s), alts)
            ELSE LET k == CHOOSE k \in hits : \A h \in hits : k <= h
                 IN SubSeq(s, Len(alts[k]) + 1, Len(s))

\* s.replace(/p1|p2|.../gi, ''): a left-to-right scan; at each position the
\* first alternative that matches (ignoring case) is removed
RECURSIVE removeAllCI(_, _)
removeAllCI(s, alts) ==
    IF s = <<>> THEN <<>>
    ELSE LET lower == toLowerCase(s)
             hits == {k \in 1..Len(alts) : matchesAt(lower, alts[k], 1)}
         IN IF hits = {}
            THEN <<s[1]>> \o removeAllCI(Tail(s), alts)
            ELSE LET k == CHOOSE k \in hits : \A h \in hits : k <= h
                 IN removeAllCI(SubSeq(s, Len(alts[k]) + 1, Len(s)), alts)

----------------------------------------------------------------------------
(* The natural-language rewriter *)

Null == [t |-> "null"]
Undefined == [t |-> "undefined"]
JString(s) == [t |-> "string", v |-> s]

parseNaturalLanguage(txt) ==
    LET lower == toLowerCase(txt)
    IN IF includes(lower, S_weather_in)
       THEN LET city == removePunctuation(trim(splitSecond(lower, S_weather_in)))
            IN JString(CMD_weather \o <<" ">> \o city)
       ELSE IF startsWith(lower, S_what_is) \/ startsWith(lower, S_calculate)
       THEN LET expression == trim(removeAllCI(txt, <<S_what_is, S_calculate>>))
            IN JString(CMD_calc \o <<" ">> \o expression)
       ELSE IF startsWith(lower, S_define) \/ startsWith(lower, S_what_does)
       THEN LET word == removePunctuation(trim(removeAllCI(txt, <<S_define, S_what_does, S_mean>>)))
            IN JString(CMD_define \o <<" ">> \o word)
       ELSE Null

----------------------------------------------------------------------------
(* JavaScript values: numbers carry their decimal text, as `${n}` prints it *)

Num(s) == [t |-> "number", v |-> s]
Obj(r) == [t |-> "object", v |-> r]
Arr(q) == [t |-> "array", v |-> q]
Bool(b) == [t |-> "boolean", v |-> b]

S_4 == <<"4">>
S_20 == <<"2","0">>
S_NaN == <<"N","a","N">>
S_clear == <<"c","l","e","a","r"," ","s","k","y">>
S_feline == <<"a"," ","f","e","l","i","n","e">>
S_colon == <<":"," ">>
S_comma == <<","," ">>
S_object == <<"[","o","b","j","e","c","t"," ","O","b","j","e","c","t","]">>
S_NegInfinity == <<"-","I","n","f","i","n","i","t","y">>
S_0 == <<"0">>
N_weather == <<"w","e","a","t","h","e","r">>
N_calc == <<"c","a","l","c">>
N_define == <<"d","e","f","i","n","e">>

NonFinite == {S_Infinity, S_NegInfinity, S_NaN}

isNullish(v) == v.t \in {"undefined", "null"}

\* v[k] for a property name k that is no index and not 'length', v not
\* nullish: only an object has such properties of its own
getProp(v, k) ==
    IF v.t = "object" /\ k \in DOMAIN v.v THEN v.v[k] ELSE Undefined

\* v[0], v not nullish: the first element of an array, the first character
\* of a string, the property '0' of an object
getIndex(v, i) ==
    CASE v.t = "array" -> IF i + 1 <= Len(v.v) THEN v.v[i + 1] ELSE Undefined
      [] v.t = "string" -> IF i + 1 <= Len(v.v) THEN JString(<<v.v[i + 1]>>) ELSE Undefined
      [] v.t = "object" -> IF i = 0 /\ "0" \in DOMAIN v.v THEN v.v["0"] ELSE Undefined
      [] OTHER -> Undefined

\* What a conversion or an evaluation that throws results in
Threw == [t |-> "threw"]

\* `${v}` throws a TypeError: an object with a key 'toString' of its own has
\* no callable toString (no value of the model is a function) and its
\* valueOf yields no primitive; an array throws when one of the elements it
\* prints does
RECURSIVE toStrThrows(_)
toStrThrows(v) ==
    CASE v.t = "object" -> "toString" \in DOMAIN v.v
      [] v.t = "array" ->
            \E i \in 1..Len(v.v) : ~isNullish(v.v[i]) /\ toStrThrows(v.v[i])
      [] OTHER -> FALSE

\* `${v}` when it does not throw: an array prints its elements joined by
\* ',', null and undefined among them as nothing; an object prints as
\* '[object Object]'
RECURSIVE stringOf(_)
RECURSIVE joined(_, _)
joined(q, i) ==
    IF i > Len(q) THEN <<>>
    ELSE (IF i > 1 THEN <<",">> ELSE <<>>)
         \o (IF isNullish(q[i]) THEN <<>> ELSE stringOf(q[i]))
         \o joined(q, i + 1)

stringOf(v) ==
    CASE v.t = "string" -> v.v
      [] v.t = "number" -> v.v
      [] v.t = "undefined" -> S_undefined
      [] v.t = "null" -> <<"n","u","l","l">>
      [] v.t = "boolean" -> IF v.v THEN <<"t","r","u","e">> ELSE <<"f","a","l","s","e">>
      [] v.t = "array" -> joined(v.v, 1)
      [] OTHER -> S_object

\* `${v}`: the text, or Threw
toStr(v) == IF toStrThrows(v) THEN Threw ELSE stringOf(v)

\* !v
isFalsy(v) ==
    \/ isNullish(v)
    \/ v.t = "string" /\ v.v = <<>>
    \/ v.t = "number" /\ v.v \in {<<"0">>, S_NaN}
    \/ v.t = "boolean" /\ ~v.v

----------------------------------------------------------------------------
(* Messages and their persistence *)

\* Mutant: the id is taken from the clock instead of uuidv4()
createMessageClockId(uuid, now, sender, content, type, pluginName, pluginData) ==
    [id |-> now, sender |-> sender, content |-> content, type |-> type,
     pluginName |-> pluginName, pluginData |-> pluginData, timestamp |-> now]

createMessage(uuid, now, sender, content, type, pluginName, pluginData) ==
    [id |-> uuid, sender |-> sender, content |-> content, type |-> type,
     pluginName |-> pluginName, pluginData |-> pluginData, timestamp |-> now]

OptionalKeys == {"pluginName", "pluginData"}

\* m.k, which reads undefined when the object has no such key
Field(m, k) == IF k \in DOMAIN m THEN m[k] ELSE Undefined

\* JSON.stringify and JSON.parse of a value that is not undefined: a number
\* that is not finite is written as null, so is an undefined element of an
\* array, and a property whose value is undefined is left out
RECURSIVE jsonValue(_)
jsonValue(v) ==
    CASE v.t = "number" -> IF v.v \in NonFinite THEN Null ELSE v
      [] v.t = "undefined" -> Null
      [] v.t = "array" -> Arr([i \in 1..Len(v.v) |-> jsonValue(v.v[i])])
      [] v.t = "object" ->
            Obj([k \in {k \in DOMAIN v.v : v.v[k].t # "undefined"} |-> jsonValue(v.v[k])])
      [] OTHER -> v

\* JSON.stringify of one message: a key whose value is undefined is left out
jsonMessage(m) ==
    LET keys == {k \in DOMAIN m : k \notin OptionalKeys \/ m[k].t # "undefined"}
    IN [k \in keys |-> IF k \in OptionalKeys THEN jsonValue(m[k]) ELSE m[k]]

JSONstringify(msgs) == [i \in 1..Len(msgs) |-> jsonMessage(msgs[i])]

\* JSON.parse of what JSONstringify wrote: the objects hold the keys written
JSONparse(json) == json

Absent == [t |-> "absent"]
Saved(json) == [t |-> "json", v |-> json]

\* What another writer of the slot can leave there: the empty text, a text
\* that is not empty and no JSON, and the JSON of a value that is no array
EmptyText == [t |-> "empty"]
Garbled == [t |-> "garbled"]
SavedValue(value) == [t |-> "value", v |-> value]
Slots ==
    {Absent, EmptyText, Garbled, SavedValue(Obj(<<>>)), SavedValue(JString(<<>>)),
     SavedValue(Obj([length |-> Num(S_0)]))}

\* and the JSON of an array that the effect of lines 25-28 did not write
ForeignArrays == {SavedValue(Arr(<<Null>>))}

Digits == <<"0","1","2","3","4","5","6","7","8","9">>

isDigit(c) == \E i \in 1..Len(Digits) : Digits[i] = c

digitValue(c) == (CHOOSE i \in 1..Len(Digits) : Digits[i] = c) - 1

\* the decimal digits of a number n >= 0, none for 0
RECURSIVE decimal(_)
decimal(n) == IF n = 0 THEN <<>> ELSE decimal(n \div 10) \o <<Digits[(n % 10) + 1]>>

\* q without its leading zeros
significant(q) ==
    LET others == {i \in 1..Len(q) : q[i] # "0"}
    IN IF others = {} THEN <<>>
       ELSE SubSeq(q, CHOOSE i \in others : \A j \in others : i <= j, Len(q))

\* a < b for two numbers spelt in decimal digits without leading zeros
below(a, b) ==
    \/ Len(a) < Len(b)
    \/ /\ Len(a) = Len(b)
       /\ a # b
       /\ LET differ == {i \in 1..Len(a) : a[i] # b[i]}
              i == CHOOSE i \in differ : \A j \in differ : i <= j
          IN digitValue(a[i]) < digitValue(b[i])

\* 0.a <= 0.b for two sequences of decimal digits
atMost(a, b) ==
    LET digit(q, i) == IF i <= Len(q) THEN digitValue(q[i]) ELSE 0
        n == IF Len(a) > Len(b) THEN Len(a) ELSE Len(b)
        differ == {i \in 1..n : digit(a, i) # digit(b, i)}
    IN \/ differ = {}
       \/ LET i == CHOOSE i \in differ : \A j \in differ : i <= j
          IN digit(a, i) < digit(b, i)

\* The digits of 2^-1075 = 0.247...E-323, half of the least number above 0:
\* a decimal up to it rounds to 0
HalfMinValue ==
    <<"2","4","7","0","3","2","8","2","2","9","2","0","6","2","3","2",
      "7","2","0","8","8","2","8","4","3","9","6","4","3","4","1","1",
      "0","6","8","6","1","8","2","5","2","9","9","0","1","3","0","7",
      "1","6","2","3","8","2","2","1","2","7","9","2","8","4","1","2",
      "5","0","3","3","7","7","5","3","6","3","5","1","0","4","3","7",
      "5","9","3","2","6","4","9","9","1","8","1","8","0","8","1","7",
      "9","9","6","1","8","9","8","9","8","2","8","2","3","4","7","7",
      "2","2","8","5","8","8","6","5","4","6","3","3","2","8","3","5",
      "5","1","7","7","9","6","9","8","9","8","1","9","9","3","8","7",
      "3","9","8","0","0","5","3","9","0","9","3","9","0","6","3","1",
      "5","0","3","5","6","5","9","5","1","5","5","7","0","2","2","6",
      "3","9","2","2","9","0","8","5","8","3","9","2","4","4","9","1",
      "0","5","1","8","4","4","3","5","9","3","1","8","0","2","8","4",
      "9","9","3","6","5","3","6","1","5","2","5","0","0","3","1","9",
      "3","7","0","4","5","7","6","7","8","2","4","9","2","1","9","3",
      "6","5","6","2","3","6","6","9","8","6","3","6","5","8","4","8",
      "0","7","5","7","0","0","1","5","8","5","7","6","9","2","6","9",
      "9","0","3","7","0","6","3","1","1","9","2","8","2","7","9","5",
      "5","8","5","5","1","3","3","2","9","2","7","8","3","4","3","3",
      "8","4","0","9","3","5","1","9","7","8","0","1","5","5","3","1",
      "2","4","6","5","9","7","2","6","3","5","7","9","5","7","4","6",
      "2","2","7","6","6","4","6","5","2","7","2","8","2","7","2","2",
      "0","0","5","6","3","7","4","0","0","6","4","8","5","4","9","9",
      "9","7","7","0","9","6","5","9","9","4","7","0","4","5","4","0",
      "2","0","8","2","8","1","6","6","2","2","6","2","3","7","8","5",
      "7","3","9","3","4","5","0","7","3","6","3","3","9","0","0","7",
      "9","6","7","7","6","1","9","3","0","5","7","7","5","0","6","7",
      "4","0","1","7","6","3","2","4","6","7","3","6","0","0","9","6",
      "8","9","5","1","3","4","0","5","3","5","5","3","7","4","5","8",
      "5","1","6","6","6","1","1","3","4","2","2","3","7","6","6","6",
      "7","8","6","0","4","1","6","2","1","5","9","6","8","0","4","6",
      "1","9","1","4","4","6","7","2","9","1","8","4","0","3","0","0",
      "5","3","0","0","5","7","5","3","0","8","4","9","0","4","8","7",
      "6","5","3","9","1","7","1","1","3","8","6","5","9","1","6","4",
      "6","2","3","9","5","2","4","9","1","2","6","2","3","6","5","3",
      "8","8","1","8","7","9","6","3","6","2","3","9","3","7","3","2",
      "8","0","4","2","3","8","9","1","0","1","8","6","7","2","3","4",
      "8","4","9","7","6","6","8","2","3","5","0","8","9","8","6","3",
      "3","8","8","5","8","7","9","2","5","6","2","8","3","0","2","7",
      "5","5","9","9","5","6","5","7","5","2","4","4","5","5","5","0",
      "7","2","5","5","1","8","9","3","1","3","6","9","0","8","3","6",
      "2","5","4","7","7","9","1","8","6","9","4","8","6","6","7","9",
      "9","4","9","6","8","3","2","4","0","4","9","7","0","5","8","2",
      "1","0","2","8","5","1","3","1","8","5","4","5","1","3","9","6",
      "2","1","3","8","3","7","7","2","2","8","2","6","1","4","5","4",
      "3","7","6","9","3","4","1","2","5","3","2","0","9","8","5","9",
      "1","3","2","7","6","6","7","2","3","6","3","2","8","1","2","5">>

HalfMinExponent == -324

\* d.ddd * 10^order rounds to 0, for d.ddd spelt by the digits sig, the
\* first of them not 0, and order = shift - e (negative) or shift + e, the
\* number e spelt in digits and compared digit by digit, whatever its length
roundsToZero(sig, shift, negative, e) ==
    LET gap == IF negative THEN shift - HalfMinExponent ELSE HalfMinExponent - shift
        \* order < HalfMinExponent
        orderBelow ==
            IF negative THEN gap < 0 \/ below(decimal(gap), e)
            ELSE gap > 0 /\ below(e, decimal(gap))
        \* order = HalfMinExponent
        orderAt == gap >= 0 /\ e = decimal(gap)
    IN orderBelow \/ (orderAt /\ atMost(sig, HalfMinValue))

\* Number(s) is 0 for a string s: white space only; 0x, 0o or 0b and zeros;
\* or a decimal numeral (sign, digits, point, exponent) of zero or so near
\* to zero that it rounds to 0
isZeroNumeral(s) ==
    LET str == trim(s)
        Zeros(q) == q # <<>> /\ \A i \in 1..Len(q) : q[i] = "0"
        unsigned == IF str # <<>> /\ str[1] \in {"+", "-"} THEN Tail(str) ELSE str
        es == {i \in 1..Len(unsigned) : unsigned[i] \in {"e", "E"}}
        mantissa == IF es = {} THEN unsigned
                    ELSE SubSeq(unsigned, 1, (CHOOSE i \in es : \A j \in es : i <= j) - 1)
        exponent == SubSeq(unsigned, Len(mantissa) + 2, Len(unsigned))
        negative == exponent # <<>> /\ exponent[1] = "-"
        digits == IF exponent # <<>> /\ exponent[1] \in {"+", "-"} THEN Tail(exponent) ELSE exponent
        points == {i \in 1..Len(mantissa) : mantissa[i] = "."}
        point == IF points = {} THEN Len(mantissa) + 1 ELSE CHOOSE i \in points : TRUE
        whole == SubSeq(mantissa, 1, point - 1)
        all == whole \o SubSeq(mantissa, point + 1, Len(mantissa))
        wellFormed ==
            /\ Cardinality(points) <= 1
            /\ all # <<>>
            /\ \A i \in 1..Len(all) : isDigit(all[i])
            /\ es # {} => (digits # <<>> /\ \A i \in 1..Len(digits) : isDigit(digits[i]))
        first == Len(all) - Len(significant(all)) + 1
    IN \/ str = <<>>
       \/ /\ Len(str) > 2
          /\ str[1] = "0"
          /\ str[2] \in {"x", "X", "o", "O", "b", "B"}
          /\ Zeros(SubSeq(str, 3, Len(str)))
       \/ /\ wellFormed
          /\ \/ significant(all) = <<>>
             \/ roundsToZero(significant(all), Len(whole) - first, negative,
                             significant(digits))

\* v == 0, FALSE also where the comparison throws: an array is compared by
\* its text, an object by '[object Object]' or not at all
looseZero(v) ==
    CASE v.t = "number" -> v.v = S_0
      [] v.t = "boolean" -> ~v.v
      [] v.t = "string" -> isZeroNumeral(v.v)
      [] v.t = "array" -> ~toStrThrows(v) /\ isZeroNumeral(toStr(v))
      [] OTHER -> FALSE

\* line 131 with `messages` a value v that is no array: reading length of
\* null throws; with v.length == 0 the empty view is rendered; otherwise
\* v.map is called, and is no function
rendersEmpty(v) ==
    CASE v.t = "null" -> FALSE
      [] v.t = "string" -> v.v = <<>>
      [] v.t = "array" -> v.v = <<>>
      [] v.t = "object" -> looseZero(getProp(v, "length"))
      [] OTHER -> FALSE

\* <div>{msg.content}</div> of line 137: React renders a string or a number,
\* nothing for a boolean, null or undefined, and the elements of an array;
\* it throws on an object
RECURSIVE rendersChild(_)
rendersChild(v) ==
    CASE v.t = "object" -> FALSE
      [] v.t = "array" -> \A i \in 1..Len(v.v) : rendersChild(v.v[i])
      [] OTHER -> TRUE

\* lines 131-141 for one element msg of a parsed array: reading a property
\* of null throws; msg.sender != "user" (line 133), key={msg.id} (line 136)
\* and new Date(msg.timestamp) (line 138) convert an object or an array to a
\* primitive and throw where `${v}` does; an invalid date prints as such
rendersMessage(msg) ==
    /\ ~isNullish(msg)
    /\ ~toStrThrows(getProp(msg, "sender"))
    /\ ~toStrThrows(getProp(msg, "id"))
    /\ rendersChild(getProp(msg, "content"))
    /\ ~toStrThrows(getProp(msg, "timestamp"))

\* line 19: an absent or empty text is not parsed; JSON.parse(saved) throws a
\* SyntaxError on any other text that is no JSON; line 131 throws on a
\* parsed value that is no array unless it renders as empty, and lines
\* 132-141 throw on an array with an element that does not render. Nothing
\* is caught.
constructs(saved) ==
    CASE saved.t \in {"absent", "empty", "json"} -> TRUE
      [] saved.t = "garbled" -> FALSE
      [] saved.t = "value" /\ (saved.v.t # "array" \/ saved.v.v = <<>>) -> rendersEmpty(saved.v)
      [] saved.t = "value" /\ saved.v.t = "array" /\ saved.v.v # <<>> ->
            \A i \in 1..Len(saved.v.v) : rendersMessage(saved.v.v[i])

\* useState initializer: saved ? JSON.parse(saved) : [], when it is an array.
\* Of the transcript that begins with the elements of an array which the
\* effect did not write, and which renders, the model says nothing.
initialMessages(saved) ==
    CASE saved.t = "json" -> JSONparse(saved.v)
      [] saved.t \in {"absent", "empty"} -> <<>>
      [] saved.t = "value" /\ (saved.v.t # "array" \/ saved.v.v = <<>>) -> <<>>

\* useState initializer, when JSON.parse(saved) is no array
initialNotArray(saved) ==
    IF saved.t = "value" /\ saved.v.t # "array" THEN saved.v ELSE Undefined

\* [...prev, message] at lines 60 and 65: prev is iterable
spreads(prev) == prev.t \in {"undefined", "string"}

\* useEffect on [messages]: localStorage.setItem('chatMessages', ...)
persist(msgs) == Saved(JSONstringify(msgs))

isPlaceholder(m) ==
    /\ m.sender = "assistant"
    /\ m.content = TypingText
    /\ m.type = "text"

\* prev.filter(msg => msg.id !== loadingMsg.id)
removeById(msgs, id) == SelectSeq(msgs, LAMBDA m : m.id # id)

----------------------------------------------------------------------------
(* The environment: what the user types, what the evaluator and the two    *)
(* HTTP endpoints answer                                                   *)

In_blank == <<" ", "U+00A0", "\r">>
In_weather_bare == <<"/","w","e","a","t","h","e","r">>
In_weather_in_nothing == <<"w","e","a","t","h","e","r"," ","i","n"," ","?">>
In_weather_in_Paris == <<"W","e","a","t","h","e","r"," ","i","n"," ","P","a","r","i","s","?">>
In_what_is == <<"w","h","a","t"," ","i","s"," ","2","+","2">>
In_calc_div0 == <<"/","c","a","l","c"," ","1","/","0">>
In_calc_bad == <<"/","c","a","l","c"," ","2","+">>
In_define == <<"d","e","f","i","n","e"," ","c","a","t">>
In_hello == <<"h","e","l","l","o">>
In_calc_glued == <<"/","c","a","l","c","2","+","2">>
In_calculate_what_is ==
    <<"C","a","l","c","u","l","a","t","e"," ","w","h","a","t"," ","i","s"," ","2","+","2">>
In_calc_toString == <<"/","c","a","l","c"," ","(","{","t","o","S","t","r","i","n","g",":","1","}",")">>

Inputs ==
    {In_blank, In_weather_bare, In_weather_in_nothing, In_weather_in_Paris,
     In_what_is, In_calc_div0, In_calc_bad, In_define, In_hello, In_calc_glued,
     In_calculate_what_is, In_calc_toString}

Keys == {"Enter", "a"}

E_2plus2 == <<"2","+","2">>
E_div0 == <<"1","/","0">>
E_bad == <<"2","+">>

E_toString == <<"(","{","t","o","S","t","r","i","n","g",":","1","}",")">>

\* Function(`"use strict";return (${expression})`)(): the value returned, or
\* Threw. The engine is not modelled: this is the table of its answers to
\* the expressions of Inputs and to some more, and it says nothing of an
\* expression that is not in it.
Evaluate(expression) ==
    CASE expression = E_2plus2 -> {Num(S_4)}
      [] expression = E_div0 -> {Num(S_Infinity)}
      [] expression = E_bad -> {Threw}
      [] expression = E_toString -> {Obj([toString |-> Num(<<"1">>)])}
      [] expression = <<>> -> {Threw}
      [] expression = In_what_is -> {Threw}
      [] expression = <<"3">> -> {Num(<<"3">>)}
      [] expression = <<"5">> -> {Num(<<"5">>)}
      [] expression = <<"1","+","1">> -> {Num(<<"2">>)}
      [] expression = <<"2","+","3">> -> {Num(<<"5">>)}
      [] expression = <<"2","*","3">> -> {Num(<<"6">>)}
      [] expression = <<"1","0","/","4">> -> {Num(<<"2",".","5">>)}
      [] expression = <<"2"," ","+"," ","2">> -> {Num(S_4)}
      [] expression = <<"(","2","+","2",")">> -> {Num(S_4)}
      [] expression = <<"0","/","0">> -> {Num(S_NaN)}
      [] expression = <<"-","1","/","0">> -> {Num(S_NegInfinity)}
      [] expression = <<"1","<","2">> -> {Bool(TRUE)}
      [] expression = <<"n","u","l","l">> -> {Null}
      [] expression = <<"u","n","d","e","f","i","n","e","d">> -> {Undefined}
      [] expression = <<"[","1","]">> -> {Arr(<<Num(<<"1">>)>>)}
      [] expression = <<"[","1",",","2","]">> -> {Arr(<<Num(<<"1">>), Num(<<"2">>)>>)}
      [] expression = <<"[","1","/","0","]">> -> {Arr(<<Num(S_Infinity)>>)}
      [] expression = <<"[","{","t","o","S","t","r","i","n","g",":","1","}","]">> ->
            {Arr(<<Obj([toString |-> Num(<<"1">>)])>>)}
      [] expression = <<"\"","a","\"">> -> {JString(<<"a">>)}
      [] expression = <<"\"","b","\"">> -> {JString(<<"b">>)}

\* An axios reply: ok = FALSE is a rejected request (network error, non-2xx)
Reply(data) == [ok |-> TRUE, data |-> data]
Rejected == [ok |-> FALSE, data |-> Undefined]

W_weather == Arr(<<Obj([id |-> Num(<<"8","0","0">>), description |-> JString(S_clear)])>>)
W_main == Obj([temp |-> Num(S_20)])

WeatherReplies ==
    {Rejected,
     Reply(Obj([weather |-> W_weather, main |-> W_main])),
     Reply(Obj([main |-> W_main])),
     Reply(Obj([weather |-> Arr(<<>>), main |-> W_main])),
     Reply(Obj([weather |-> Arr(<<Obj([id |-> Num(<<"8","0","0">>)])>>), main |-> W_main])),
     Reply(Obj([weather |-> W_weather])),
     Reply(Obj([weather |-> W_weather, main |-> Obj([humidity |-> Num(<<"5","0">>)])])),
     Reply(Obj([weather |-> W_weather, main |-> Obj([temp |-> Obj([toString |-> Num(<<"1">>)])])]))}

D_word == JString(<<"c","a","t">>)
D_definitions(defs) == Obj([partOfSpeech |-> JString(<<"n","o","u","n">>), definitions |-> defs])
D_entry(meanings) == Obj([word |-> D_word, meanings |-> meanings])

DefineReplies ==
    {Rejected,
     Reply(Arr(<<D_entry(Arr(<<D_definitions(Arr(<<Obj([definition |-> JString(S_feline)])>>))>>))>>)),
     Reply(Arr(<<>>)),
     Reply(Arr(<<Obj([word |-> D_word])>>)),
     Reply(Arr(<<D_entry(Arr(<<>>))>>)),
     Reply(Arr(<<D_entry(Arr(<<Obj([partOfSpeech |-> JString(<<"n","o","u","n">>)])>>))>>)),
     Reply(Arr(<<D_entry(Arr(<<D_definitions(Arr(<<>>))>>))>>)),
     Reply(Arr(<<D_entry(Arr(<<D_definitions(Arr(<<Obj([example |-> JString(S_feline)])>>))>>))>>)),
     Reply(Arr(<<D_entry(Arr(<<D_definitions(Arr(<<Obj([definition |-> JString(<<>>)])>>))>>))>>)),
     Reply(Arr(<<D_entry(Arr(<<D_definitions(Arr(<<Obj([definition |->
        Obj([toString |-> Num(<<"1">>)])])>>))>>))>>))}

----------------------------------------------------------------------------
(* The three handlers: the message a reply or an evaluation results in *)

textResult(content) ==
    [content |-> content, type |-> "text", pluginName |-> Undefined, pluginData |-> Undefined]

\* Mutant: a plugin result is created with type 'text'
pluginResultAsText(content, name, data) ==
    [content |-> content, type |-> "text", pluginName |-> JString(name), pluginData |-> data]

pluginResult(content, name, data) ==
    [content |-> content, type |-> "plugin", pluginName |-> JString(name), pluginData |-> data]

\* lines 80-89: weather.weather[0].description and weather.main.temp throw a
\* TypeError when the object they are read from is undefined, and so does
\* the template of line 84 when a value has no text
weatherResult(city, res) ==
    IF ~res.ok \/ isNullish(res.data) THEN textResult(WeatherErrorText)
    ELSE LET weather == res.data
             list == getProp(weather, "weather")
             first == IF isNullish(list) THEN Undefined ELSE getIndex(list, 0)
             main == getProp(weather, "main")
         IN IF isNullish(list) \/ isNullish(first) \/ isNullish(main)
            THEN textResult(WeatherErrorText)
            ELSE LET description == getProp(first, "description")
                     temp == getProp(main, "temp")
                 IN IF toStrThrows(description) \/ toStrThrows(temp)
                    THEN textResult(WeatherErrorText)
                    ELSE pluginResult(S_Weather_in \o city \o S_colon
                                        \o toStr(description) \o S_comma
                                        \o toStr(temp) \o S_degC,
                                      N_weather, weather)

\* lines 91-98: the catch is taken when line 93 throws and when the template
\* of line 94 does
calcResult(outcome) ==
    IF outcome = Threw \/ toStrThrows(outcome) THEN textResult(InvalidExpressionText)
    ELSE pluginResult(S_Result \o toStr(outcome), N_calc, outcome)

\* res.data[0]?.meanings[0]?.definitions[0]?.definition: ?. yields undefined
\* for the rest of the chain when its left side is nullish; [0] on an
\* undefined meanings or definitions throws a TypeError. The value is
\* Threw or the definition read.
firstDefinition(data) ==
    IF isNullish(data) THEN Threw
    ELSE LET entry == getIndex(data, 0)
         IN IF isNullish(entry) THEN Undefined
            ELSE LET meanings == getProp(entry, "meanings")
                 IN IF isNullish(meanings) THEN Threw
                    ELSE LET meaning == getIndex(meanings, 0)
                         IN IF isNullish(meaning) THEN Undefined
                            ELSE LET definitions == getProp(meaning, "definitions")
                                 IN IF isNullish(definitions) THEN Threw
                                    ELSE LET d == getIndex(definitions, 0)
                                         IN IF isNullish(d) THEN Undefined
                                            ELSE getProp(d, "definition")

\* lines 101-108
defineResult(word, res) ==
    IF ~res.ok THEN textResult(DefineErrorText)
    ELSE LET found == firstDefinition(res.data)
         IN IF found = Threw THEN textResult(DefineErrorText)
            ELSE LET definition == IF isFalsy(found) THEN JString(DefinitionNotFoundText) ELSE found
                 IN IF toStrThrows(definition) THEN textResult(DefineErrorText)
                    ELSE pluginResult(S_Definition_of \o word \o S_colon \o toStr(definition),
                                      N_define, res.data)

\* createMessage('assistant', ...) of a handler's result
assistantMessage(uuid, now, r) ==
    createMessage(uuid, now, "assistant", r.content, r.type, r.pluginName, r.pluginData)

----------------------------------------------------------------------------
(* The component *)

NotRun == [t |-> "notrun"]

\* Mutant: the input and the button are never disabled
disabledNever == FALSE

\* lines 151 and 153: disabled={loading} on the input and on the button
disabled == loading

\* The closure a call of handleSend leaves behind: first its timer, then, for
\* /weather and /define, its pending axios.get
Closure(in, loadingId, stage, arg) ==
    [input |-> in, loadingId |-> loadingId, stage |-> stage, arg |-> arg]

Init ==
    /\ mounted = FALSE
    /\ messages = <<>>
    /\ input = <<>>
    /\ loading = FALSE
    /\ stored \in Slots \cup ForeignArrays
    /\ pending = {}
    /\ clock = 0
    /\ nextId = 1
    /\ text = <<>>
    /\ parsed = NotRun
    /\ crashed = FALSE
    /\ notArray = Undefined
    /\ effectDue = FALSE

\* JSON.stringify(messages) of line 26, as the slot holds it
written ==
    IF notArray = Undefined THEN persist(messages) ELSE SavedValue(jsonValue(notArray))

\* React runs an effect that is still due before it renders again
flushed == IF effectDue THEN written ELSE stored

\* The page is loaded or reloaded: the component is constructed afresh (lines
\* 17-23), timers, requests and a due effect of the page before are gone.
\* The effect of lines 25-28 is due after the first render. When the
\* initializer of line 19 or the render of line 131 throws, nothing is
\* mounted and no effect runs.
Load ==
    /\ input' = <<>>
    /\ loading' = FALSE
    /\ pending' = {}
    /\ IF constructs(stored)
       THEN /\ mounted' = TRUE
            /\ crashed' = FALSE
            /\ messages' = initialMessages(stored)
            /\ notArray' = initialNotArray(stored)
            /\ effectDue' = TRUE
       ELSE /\ mounted' = FALSE
            /\ crashed' = TRUE
            /\ messages' = <<>>
            /\ notArray' = Undefined
            /\ effectDue' = FALSE
    /\ UNCHANGED <<stored, clock, nextId, text, parsed>>

\* lines 25-28: the effect of a render that came from a timer, a reply or
\* the page load runs in a task of its own, after the render is committed
useEffect ==
    /\ mounted
    /\ effectDue
    /\ stored' = written
    /\ effectDue' = FALSE
    /\ UNCHANGED <<mounted, messages, input, loading, pending, clock, nextId, text, parsed, crashed, notArray>>

\* line 147. The user types while the transcript of the model has room for
\* another submission; the render of the new input runs a due effect first.
onChange(value) ==
    /\ mounted
    /\ ~disabled
    /\ Len(messages) + 2 <= MaxMessages
    /\ nextId + 1 <= MaxIds
    /\ input' = value
    /\ IF value # input
       THEN stored' = flushed /\ effectDue' = FALSE
       ELSE UNCHANGED <<stored, effectDue>>
    /\ UNCHANGED <<mounted, messages, loading, pending, clock, nextId, text, parsed, crashed, notArray>>

\* lines 59-67 with `messages` an array or a string: both messages are
\* appended, and the effect of lines 25-28 writes the slot (the render
\* comes from a click or a key, and its effect runs with it)
appended(userMessage, loadingMsg) ==
    /\ messages' = messages \o <<userMessage, loadingMsg>>
    /\ loading' = TRUE
    /\ stored' = persist(messages')
    /\ UNCHANGED <<mounted, crashed>>

\* lines 60 and 65 with `messages` an object: [...prev, userMessage] throws
\* in the render that follows the handler, and the component is unmounted;
\* no effect of that render runs
spreadThrows ==
    /\ messages' = <<>>
    /\ loading' = FALSE
    /\ mounted' = FALSE
    /\ crashed' = TRUE
    /\ stored' = flushed

\* lines 59-67: new Date() is read at line 59 and again at line 64, the
\* timer is set whatever the render does afterwards. The transcript and the
\* ids of the model have room for the submission.
accepted ==
    /\ Len(messages) + 2 <= MaxMessages
    /\ nextId + 1 <= MaxIds
    /\ \E later \in clock..MaxClock :
          LET userMessage == createMessage(nextId, clock, "user", input, "text", Undefined, Undefined)
              loadingMsg == createMessage(nextId + 1, later, "assistant", TypingText, "text", Undefined, Undefined)
          IN /\ IF spreads(notArray)
                THEN appended(userMessage, loadingMsg)
                ELSE spreadThrows
             /\ pending' = pending \cup {Closure(input, loadingMsg.id, "timer", <<>>)}
             /\ clock' = later
    /\ input' = <<>>
    /\ notArray' = Undefined
    /\ effectDue' = FALSE
    /\ nextId' = nextId + 2
    /\ UNCHANGED <<text, parsed>>

\* Mutant: the check of line 58 is missing
handleSendAnyInput == accepted

\* lines 57-66, up to the setTimeout
handleSend ==
    IF trim(input) = <<>>
    THEN UNCHANGED vars
    ELSE accepted

\* line 153: onClick of the button
handleClick ==
    /\ mounted
    /\ ~disabled
    /\ handleSend

\* lines 117-119, onKeyDown of the input
handleKeyPress(key) ==
    /\ mounted
    /\ ~disabled
    /\ IF key = "Enter" THEN handleSend ELSE UNCHANGED vars

\* lines 69-71
commandOf(in) ==
    LET command == trim(in)
        rewritten == parseNaturalLanguage(command)
    IN IF rewritten # Null THEN rewritten.v ELSE command

\* lines 69-71 on each of the inputs, computed once
Commands == [in \in Inputs |-> commandOf(in)]

\* line 74: command.replace('/weather', '').trim()
cityOf(command) == trim(removeFirst(command, CMD_weather))

\* the closure c ends: its result is appended and loading is reset, in a
\* render whose effect is due afterwards. On a component that is unmounted
\* the state setters do nothing.
finish(c, base, r) ==
    /\ pending' = pending \ {c}
    /\ IF mounted
       THEN /\ messages' = base \o <<assistantMessage(nextId, clock, r)>>
            /\ loading' = FALSE
            /\ nextId' = nextId + 1
            /\ stored' = flushed
            /\ effectDue' = TRUE
       ELSE UNCHANGED <<messages, loading, nextId, stored, effectDue>>
    /\ UNCHANGED <<mounted, input, clock, text, parsed, crashed, notArray>>

\* the closure c removed its placeholder and awaits axios.get
await(c, base, stage, arg) ==
    /\ pending' = (pending \ {c}) \cup {Closure(c.input, c.loadingId, stage, arg)}
    /\ IF mounted
       THEN /\ messages' = base
            /\ stored' = flushed
            /\ effectDue' = TRUE
       ELSE UNCHANGED <<messages, stored, effectDue>>
    /\ UNCHANGED <<mounted, input, loading, clock, nextId, text, parsed, crashed, notArray>>

\* lines 67-114: the timer callback, up to its first await or its end
timerFired(c) ==
    /\ c \in pending
    /\ c.stage = "timer"
    /\ LET base == removeById(messages, c.loadingId)
           command == Commands[c.input]
       IN IF startsWith(command, CMD_weather)
          THEN LET city == cityOf(command)
               IN IF city = <<>>
                  THEN finish(c, base, textResult(ProvideCityText))
                  ELSE await(c, base, "weather", city)
          ELSE IF startsWith(command, CMD_calc)
          THEN LET expression == trim(removeFirst(command, CMD_calc))
               IN \E outcome \in Evaluate(expression) : finish(c, base, calcResult(outcome))
          ELSE IF startsWith(command, CMD_define)
          THEN await(c, base, "define", trim(removeFirst(command, CMD_define)))
          ELSE finish(c, base, textResult(UnrecognizedText))

\* lines 81-89 and 113: the weather request settles
weatherSettled(c, res) ==
    /\ c \in pending
    /\ c.stage = "weather"
    /\ finish(c, messages, weatherResult(c.arg, res))

\* lines 102-108 and 113: the dictionary request settles
defineSettled(c, res) ==
    /\ c \in pending
    /\ c.stage = "define"
    /\ finish(c, messages, defineResult(c.arg, res))

\* new Date() never reads less than before
Tick ==
    /\ clock < MaxClock
    /\ clock' = clock + 1
    /\ UNCHANGED <<mounted, messages, input, loading, stored, pending, nextId, text, parsed, crashed, notArray, effectDue>>

Next ==
    \/ Load
    \/ useEffect
    \/ \E value \in Inputs : onChange(value)
    \/ handleClick
    \/ \E key \in Keys : handleKeyPress(key)
    \/ \E c \in pending : timerFired(c)
    \/ \E c \in pending, res \in WeatherReplies : weatherSettled(c, res)
    \/ \E c \in pending, res \in DefineReplies : defineSettled(c, res)
    \/ Tick

Spec == Init /\ [][Next]_vars

\* The timer set at line 67 fires after its 2000 ms, and a request issued at
\* line 81 or 102 settles, with a reply or with a rejection
Fairness ==
    /\ WF_vars(\E c \in pending : timerFired(c))
    /\ WF_vars(\E c \in pending, res \in WeatherReplies : weatherSettled(c, res))
    /\ WF_vars(\E c \in pending, res \in DefineReplies : defineSettled(c, res))

SpecLive == Init /\ [][Next]_vars /\ Fairness

----------------------------------------------------------------------------
(* The rewriter on its own: parseNaturalLanguage applied to texts built    *)
(* around the phrases it looks for                                         *)

TailAlphabet == {" ", "?", ".", "a", "P"}
Tails == UNION {[1..n -> TailAlphabet] : n \in 0..MaxTail}
Phrases ==
    {S_weather_in, <<"W","E","A","T","H","E","R"," ","I","N">>, S_what_is,
     <<"C","a","l","c","u","l","a","t","e">>, S_define, S_what_does,
     CMD_weather, CMD_calc, CMD_define, <<>>}
Heads == {<<>>, <<"x"," ">>, CMD_calc \o <<" ">>}
Gaps == {<<>>, <<" ">>}
Texts == {h \o p \o g \o tl : h \in Heads, p \in Phrases, g \in Gaps, tl \in Tails}

InitNL ==
    /\ mounted = FALSE
    /\ messages = <<>>
    /\ input = <<>>
    /\ loading = FALSE
    /\ stored = Absent
    /\ pending = {}
    /\ clock = 0
    /\ nextId = 1
    /\ text \in Texts
    /\ parsed = NotRun
    /\ crashed = FALSE
    /\ notArray = Undefined
    /\ effectDue = FALSE

Rewrite ==
    /\ parsed = NotRun
    /\ parsed' = parseNaturalLanguage(text)
    /\ UNCHANGED <<mounted, messages, input, loading, stored, pending, clock, nextId, text, crashed, notArray, effectDue>>

NextNL == Rewrite

SpecNL == InitNL /\ [][NextNL]_vars

----------------------------------------------------------------------------
(* Vocabulary of the properties *)

Last(q) == q[Len(q)]

IsPrefix(a, b) == Len(a) <= Len(b) /\ SubSeq(b, 1, Len(a)) = a

\* q without its i-th element
RemoveAt(q, i) == SubSeq(q, 1, i - 1) \o SubSeq(q, i + 1, Len(q))

\* the messages of q whose id is not id
Without(q, id) == SelectSeq(q, LAMBDA m : m.id # id)

Ids(q) == {q[i].id : i \in 1..Len(q)}

\* an assistant message of type text with content c and no plugin fields
IsAssistantText(m, c) ==
    /\ m.sender = "assistant"
    /\ m.content = c
    /\ m.type = "text"
    /\ Field(m, "pluginName") = Undefined
    /\ Field(m, "pluginData") = Undefined

\* the closure c goes on as an outbound call
Continues(c) ==
    \E d \in pending' : d.loadingId = c.loadingId /\ d.stage \in {"weather", "define"}

----------------------------------------------------------------------------
(* C1: every accepted submission appends the user message and right after  *)
(* it the "Typing..." placeholder; when the timer fires the placeholder is *)
(* removed; and the submission ends with exactly one assistant message     *)
(* appended, on every dispatch path (a step that ends a closure appends    *)
(* one message, a step that keeps it in flight appends none). A page load  *)
(* abandons the page's submissions and is not a dispatch path.             *)
(* It fails by what C12 is about: with a slot holding an object whose      *)
(* length is 0 the component mounts, and the first accepted submission     *)
(* unmounts it, so that nothing is appended.                               *)

C1_Accepted(c) ==
    /\ Len(messages') = Len(messages) + 2
    /\ IsPrefix(messages, messages')
    /\ messages'[Len(messages) + 1].sender = "user"
    /\ messages'[Len(messages) + 1].content = c.input
    /\ isPlaceholder(messages'[Len(messages) + 2])
    /\ messages'[Len(messages) + 2].id = c.loadingId

C1_OneResult(base) ==
    /\ Len(messages') = Len(base) + 1
    /\ IsPrefix(base, messages')
    /\ Last(messages').sender = "assistant"
    /\ ~isPlaceholder(Last(messages'))

C1_TimerElapsed(c) ==
    /\ c.loadingId \notin Ids(messages')
    /\ IF Continues(c)
       THEN messages' = Without(messages, c.loadingId)
       ELSE C1_OneResult(Without(messages, c.loadingId))

C1_Settled(c) ==
    /\ ~Continues(c)
    /\ C1_OneResult(messages)

C1_PlaceholderThenOneResult ==
    [][ ~Load =>
          /\ \A c \in pending' \ pending : c.stage = "timer" => C1_Accepted(c)
          /\ \A c \in pending \ pending' :
                IF c.stage = "timer" THEN C1_TimerElapsed(c) ELSE C1_Settled(c) ]_vars

----------------------------------------------------------------------------
(* C2: at most one submission is in flight: while a closure of handleSend  *)
(* awaits its timer or its reply no input and no button is enabled, so no  *)
(* second one is accepted, and in the transcript every assistant message   *)
(* directly follows a user message (no interleaving).                      *)

C2_OneInFlight ==
    /\ Cardinality(pending) <= 1
    /\ pending # {} => ~(mounted /\ ~disabled)
    /\ \A i \in 1..Len(messages) :
          messages[i].sender = "assistant" => i > 1 /\ messages[i - 1].sender = "user"

\* an outbound call is pending after an earlier submission has ended
C2_Witness ==
    /\ \E c \in pending : c.stage = "weather"
    /\ Len(messages) >= 3

----------------------------------------------------------------------------
(* C3: round trip of the store: once the persistence effect has run the    *)
(* slot holds the full current sequence, and re-initialising from it       *)
(* yields the same messages (same length, same order, same fields);        *)
(* loading once more changes nothing.                                      *)

MessageKeys == {"id", "sender", "content", "type", "pluginName", "pluginData", "timestamp"}

SameFields(a, b) == \A k \in MessageKeys : Field(a, k) = Field(b, k)

C3_RoundTrip ==
    (mounted /\ notArray = Undefined /\ ~effectDue) =>
        LET again == initialMessages(stored)
        IN /\ stored = persist(messages)
           /\ Len(again) = Len(messages)
           /\ \A i \in 1..Len(messages) : SameFields(again[i], messages[i])
           /\ initialMessages(persist(again)) = again

----------------------------------------------------------------------------
(* C4: whenever no submission is in flight (loading is false), neither the *)
(* transcript nor the persisted slot, once the effect has written it,      *)
(* holds a "Typing..." placeholder.                                        *)

C4_NoPlaceholderWhenIdle ==
    (mounted /\ ~loading) =>
        /\ \A i \in 1..Len(messages) : ~isPlaceholder(messages[i])
        /\ (stored.t = "json" /\ ~effectDue) =>
              \A i \in 1..Len(stored.v) : ~isPlaceholder(stored.v[i])

----------------------------------------------------------------------------
(* C5: the transcript is append-only except for the placeholder removal: *)
(* every step, a page load among them, either only appends, or removes     *)
(* exactly one message, the placeholder of the closure in flight, and      *)
(* appends; all other messages stay, with unchanged fields and in order.   *)

\* every message of a is in b at the same place, with the same fields
C5_Stay(a, b) ==
    /\ Len(a) <= Len(b)
    /\ \A i \in 1..Len(a) : SameFields(a[i], b[i])

C5_AppendOnlyButPlaceholder ==
    [][ \/ C5_Stay(messages, messages')
        \/ \E i \in 1..Len(messages) :
              /\ isPlaceholder(messages[i])
              /\ \E c \in pending : c.loadingId = messages[i].id
              /\ C5_Stay(RemoveAt(messages, i), messages') ]_vars

----------------------------------------------------------------------------
(* C6: in every transcript the ids are pairwise distinct and no message    *)
(* has a timestamp below the one before it.                                *)

C6_UniqueIdsMonotoneTimestamps ==
    /\ \A i, j \in 1..Len(messages) : i # j => messages[i].id # messages[j].id
    /\ \A i \in 2..Len(messages) : messages[i - 1].timestamp <= messages[i].timestamp

\* a transcript whose messages were created at different clock readings
C6_Witness ==
    /\ Len(messages) = 4
    /\ messages[1].timestamp < messages[4].timestamp

----------------------------------------------------------------------------
(* C7: every failure of a handler appends exactly one assistant text       *)
(* message with the handler's fixed content and no plugin message, and     *)
(* loading is false again so that the next submission is accepted. A       *)
(* weather failure is a rejected request or a body lacking                 *)
(* weather[0].description or main.temp; a calc failure is a throwing       *)
(* evaluation; a define failure is a rejected request.                     *)

HasDescriptionAndTemp(data) ==
    /\ data.t = "object"
    /\ "weather" \in DOMAIN data.v
    /\ data.v.weather.t = "array"
    /\ Len(data.v.weather.v) >= 1
    /\ data.v.weather.v[1].t = "object"
    /\ "description" \in DOMAIN data.v.weather.v[1].v
    /\ "main" \in DOMAIN data.v
    /\ data.v.main.t = "object"
    /\ "temp" \in DOMAIN data.v.main.v

WeatherFailure(res) == ~res.ok \/ ~HasDescriptionAndTemp(res.data)

CalcFailure(in) ==
    LET command == commandOf(in)
    IN /\ ~startsWith(command, CMD_weather)
       /\ startsWith(command, CMD_calc)
       /\ Evaluate(trim(removeFirst(command, CMD_calc))) = {Threw}

C7_Failed(base, content) ==
    /\ Len(messages') = Len(base) + 1
    /\ IsPrefix(base, messages')
    /\ IsAssistantText(Last(messages'), content)
    /\ ~loading'
    /\ ~disabled'

C7_FailureYieldsFixedText ==
    [][ /\ \A c \in pending, res \in WeatherReplies :
              (mounted /\ weatherSettled(c, res) /\ WeatherFailure(res))
                  => C7_Failed(messages, WeatherErrorText)
        /\ \A c \in pending, res \in DefineReplies :
              (mounted /\ defineSettled(c, res) /\ ~res.ok)
                  => C7_Failed(messages, DefineErrorText)
        /\ \A c \in pending :
              (mounted /\ timerFired(c) /\ CalcFailure(c.input))
                  => C7_Failed(Without(messages, c.loadingId), InvalidExpressionText) ]_vars

----------------------------------------------------------------------------
(* C8: a submission whose command is '/weather' with nothing after it, or  *)
(* whose text contains 'weather in' followed only by whitespace and        *)
(* punctuation, ends when its timer fires with exactly the assistant text  *)
(* 'Please provide a city.', with no weather lookup issued and loading     *)
(* false. It fails by what C12 is about: submitted to a component mounted  *)
(* on an object whose length is 0, the command unmounts it, and when the   *)
(* timer fires nothing is appended.                                        *)

EmptyCityInput(in) ==
    LET command == trim(in)
        lower == toLowerCase(command)
        at == indexOfFrom(lower, S_weather_in, 1)
    IN \/ command = CMD_weather
       \/ /\ at # 0
          /\ \A k \in (at + Len(S_weather_in))..Len(lower) :
                lower[k] \in Whitespace \cup Punctuation

C8_EmptyCityGuidance ==
    [][ \A c \in pending :
          (timerFired(c) /\ EmptyCityInput(c.input)) =>
              /\ Len(messages') = Len(Without(messages, c.loadingId)) + 1
              /\ IsPrefix(Without(messages, c.loadingId), messages')
              /\ IsAssistantText(Last(messages'), ProvideCityText)
              /\ pending' = pending \ {c}
              /\ ~loading' ]_vars

----------------------------------------------------------------------------
(* C9: a successful dictionary reply results in the plugin message         *)
(* 'Definition of <word>: <definition>', <definition> being the first      *)
(* definition of the first meaning of the first entry, or 'Definition not  *)
(* found' when any part of that path is missing or empty; 'Error fetching  *)
(* definition' results only from a rejected request.                       *)

ClaimedDefinition(data) ==
    IF /\ data.t = "array"
       /\ Len(data.v) >= 1
       /\ data.v[1].t = "object"
       /\ "meanings" \in DOMAIN data.v[1].v
       /\ data.v[1].v.meanings.t = "array"
       /\ Len(data.v[1].v.meanings.v) >= 1
       /\ data.v[1].v.meanings.v[1].t = "object"
       /\ "definitions" \in DOMAIN data.v[1].v.meanings.v[1].v
       /\ data.v[1].v.meanings.v[1].v.definitions.t = "array"
       /\ Len(data.v[1].v.meanings.v[1].v.definitions.v) >= 1
       /\ data.v[1].v.meanings.v[1].v.definitions.v[1].t = "object"
       /\ "definition" \in DOMAIN data.v[1].v.meanings.v[1].v.definitions.v[1].v
       /\ data.v[1].v.meanings.v[1].v.definitions.v[1].v.definition.t = "string"
       /\ data.v[1].v.meanings.v[1].v.definitions.v[1].v.definition.v # <<>>
    THEN data.v[1].v.meanings.v[1].v.definitions.v[1].v.definition.v
    ELSE DefinitionNotFoundText

C9_DefinitionOrDefault ==
    [][ \A c \in pending, res \in DefineReplies :
          (mounted /\ defineSettled(c, res)) =>
              /\ Len(messages') = Len(messages) + 1
              /\ IF res.ok
                 THEN /\ Last(messages').sender = "assistant"
                      /\ Last(messages').type = "plugin"
                      /\ Last(messages').pluginName = JString(N_define)
                      /\ Last(messages').content =
                            S_Definition_of \o c.arg \o S_colon \o ClaimedDefinition(res.data)
                 ELSE IsAssistantText(Last(messages'), DefineErrorText) ]_vars

----------------------------------------------------------------------------
(* C10: for every text containing 'weather in' (in any case) the rewriter  *)
(* returns '/weather ' followed by x, x being lowercased, without leading  *)
(* or trailing whitespace and without a trailing '?', '.' or ','.          *)

C10_WeatherRewriteTrimmed ==
    (parsed # NotRun /\ includes(toLowerCase(text), S_weather_in)) =>
        /\ parsed.t = "string"
        /\ startsWith(parsed.v, CMD_weather \o <<" ">>)
        /\ LET x == SubSeq(parsed.v, Len(CMD_weather) + 2, Len(parsed.v))
           IN /\ x = toLowerCase(x)
              /\ x = trim(x)
              /\ x # <<>> => Last(x) \notin Punctuation

----------------------------------------------------------------------------
IsCommandToken(command, token) ==
    /\ startsWith(command, token)
    /\ Len(command) > Len(token) => command[Len(token) + 1] \in Whitespace

RecognizedCommand(command) ==
    \E token \in {CMD_weather, CMD_calc, CMD_define} : IsCommandToken(command, token)

(* C11: a command that is none of '/weather', '/calc', '/define' followed  *)
(* by whitespace or by the end of the string results in exactly the        *)
(* assistant text 'Unrecognized command.', with no lookup and no           *)
(* evaluation (the closure ends with the timer step).                      *)
C11_OtherCommandsUnrecognized ==
    [][ \A c \in pending :
          (mounted /\ timerFired(c) /\ ~RecognizedCommand(commandOf(c.input))) =>
              /\ Len(messages') = Len(Without(messages, c.loadingId)) + 1
              /\ IsPrefix(Without(messages, c.loadingId), messages')
              /\ IsAssistantText(Last(messages'), UnrecognizedText)
              /\ pending' = pending \ {c} ]_vars

----------------------------------------------------------------------------
(* C12: initialisation fails soft. With the slot absent or empty, or        *)
(* holding text that does not parse, or holding a value that is no array,   *)
(* loading the page mounts the component with the empty sequence as its     *)
(* transcript and no exception propagates.                                  *)
C12_InitFailsSoft ==
    [][ (Load /\ stored \in Slots) =>
            (mounted' /\ ~crashed' /\ messages' = <<>> /\ notArray' = Undefined) ]_vars

----------------------------------------------------------------------------
\* s from position i on, with the occurrences of 'what is' and 'calculate'
\* (in any case) left out
RECURSIVE PhrasesRemoved(_, _)
PhrasesRemoved(s, i) ==
    IF i > Len(s) THEN <<>>
    ELSE IF matchesAt(toLowerCase(s), S_what_is, i)
    THEN PhrasesRemoved(s, i + Len(S_what_is))
    ELSE IF matchesAt(toLowerCase(s), S_calculate, i)
    THEN PhrasesRemoved(s, i + Len(S_calculate))
    ELSE <<s[i]>> \o PhrasesRemoved(s, i + 1)

\* the input starts with 'what is' or 'calculate' and has no 'weather in'
AsksCalc(in) ==
    LET lower == toLowerCase(trim(in))
    IN /\ startsWith(lower, S_what_is) \/ startsWith(lower, S_calculate)
       /\ ~includes(lower, S_weather_in)

IsCalcResult4(m) ==
    /\ m.sender = "assistant"
    /\ m.type = "plugin"
    /\ Field(m, "pluginName") = JString(N_calc)
    /\ m.content = S_Result \o S_4

\* what C13 says of the step in which the timer of c fires, expected being
\* the command stated for 'what is 2+2': the message the step appends for
\* the submission is the calc result
C13_Rewritten(c, expected) ==
    /\ c.input = In_what_is =>
          /\ commandOf(c.input) = expected
          /\ \A i \in (Len(Without(messages, c.loadingId)) + 1)..Len(messages') :
                IsCalcResult4(messages'[i])
          /\ pending' = pending \ {c}
    /\ AsksCalc(c.input) =>
          commandOf(c.input) = CMD_calc \o <<" ">> \o trim(PhrasesRemoved(trim(c.input), 1))

(* C13 as stated: for 'what is 2+2' the rewriter yields '/calc  2+2', with  *)
(* two spaces, and the resulting message is the calc plugin message         *)
(* 'Result: 4'; every input starting with 'what is' or 'calculate' and      *)
(* without 'weather in' is rewritten to '/calc ' and the text with those    *)
(* phrases removed and then trimmed.                                        *)
C13_WhatIsTwoSpaces ==
    [][ \A c \in pending :
          timerFired(c) => C13_Rewritten(c, CMD_calc \o <<" ", " ">> \o E_2plus2) ]_vars

(* C13, amended: for 'what is 2+2' the rewriter yields '/calc 2+2', with    *)
(* one space, the expression being trimmed; the rest as stated.             *)
C13_WhatIsRewritten ==
    [][ \A c \in pending :
          timerFired(c) => C13_Rewritten(c, CMD_calc \o <<" ">> \o E_2plus2) ]_vars

C13_Witness ==
    \E i \in 1..(Len(messages) - 1), j \in 1..Len(messages) :
        /\ messages[i].sender = "user" /\ messages[i].content = In_what_is
        /\ IsCalcResult4(messages[i + 1])
        /\ messages[j].sender = "user" /\ messages[j].content = In_calculate_what_is

----------------------------------------------------------------------------
PluginNames == {JString(N_weather), JString(N_calc), JString(N_define)}

\* the placeholder, the guidance, the three error texts and the fallthrough
FixedTexts ==
    {TypingText, ProvideCityText, WeatherErrorText, InvalidExpressionText,
     DefineErrorText, UnrecognizedText}

HasPluginField(m) ==
    Field(m, "pluginName") # Undefined \/ Field(m, "pluginData") # Undefined

(* C14: in every transcript, a message has pluginName or pluginData set     *)
(* only if its type is 'plugin'; a message of type 'plugin' has sender      *)
(* 'assistant' and pluginName weather, calc or define; user messages,       *)
(* placeholders and the error, guidance and unrecognized messages have      *)
(* type 'text' and no plugin field.                                         *)
C14_PluginFieldsOnlyOnPlugin ==
    \A i \in 1..Len(messages) :
        LET m == messages[i]
        IN /\ m.type \in {"text", "plugin"}
           /\ HasPluginField(m) => m.type = "plugin"
           /\ m.type = "plugin" =>
                 /\ m.sender = "assistant"
                 /\ Field(m, "pluginName") \in PluginNames
           /\ (m.sender = "user" \/ m.content \in FixedTexts) =>
                 /\ m.type = "text"
                 /\ ~HasPluginField(m)

C14_Witness ==
    /\ \E i \in 1..Len(messages) :
          messages[i].type = "plugin" /\ HasPluginField(messages[i])
    /\ \E i \in 1..Len(messages) :
          messages[i].sender = "assistant" /\ messages[i].content \in FixedTexts \ {TypingText}
    /\ \E i \in 1..Len(messages) : messages[i].sender = "user"

----------------------------------------------------------------------------
\* handleSend accepts the input in this step
C15_Accepts ==
    /\ handleClick \/ handleKeyPress("Enter")
    /\ trim(input) # <<>>

\* in this step the closure c ends and its result follows the user message
\* of its submission
C15_ResultAppended(c) ==
    /\ pending' = pending \ {c}
    /\ Len(messages') >= 2
    /\ Last(messages').sender = "assistant"
    /\ ~isPlaceholder(Last(messages'))
    /\ Last(messages').id \notin Ids(messages)
    /\ messages'[Len(messages') - 1].sender = "user"
    /\ messages'[Len(messages') - 1].content = c.input

(* C15: after every accepted submission, the timer firing and any lookup    *)
(* settling, loading becomes false again on every dispatch path; within a   *)
(* page it becomes false only in the step that appends the submission's     *)
(* resulting assistant message; and it is true from the acceptance on, as   *)
(* long as the submission is in flight. It fails by what C12 is about: a    *)
(* submission accepted by a component mounted on an object whose length is  *)
(* 0 unmounts it, and no loading flag is left to be true.                   *)
C15_LoadingLiveness ==
    /\ loading ~> ~loading
    /\ [][ C15_Accepts => (loading' /\ pending' # {}) ]_vars
    /\ [](pending # {} => loading)
    /\ [][ (loading /\ ~loading' /\ ~Load) =>
              \E c \in pending : C15_ResultAppended(c) ]_vars

----------------------------------------------------------------------------
(* C16: submitting an empty or whitespace-only input is a no-op. A click    *)
(* or an Enter with such an input leaves the transcript, the slot, loading  *)
(* and the input as they are, appends no placeholder, creates no closure    *)
(* (no timer, no external call) and draws no id; and with such an input,    *)
(* nothing in flight and no effect due, no step but a page load changes     *)
(* the transcript, the slot, loading or the closures.                       *)
C16_BlankSubmissionNoOp ==
    [][ /\ ((handleClick \/ handleKeyPress("Enter")) /\ trim(input) = <<>>) =>
              UNCHANGED <<messages, stored, loading, input, pending, nextId>>
        /\ (mounted /\ trim(input) = <<>> /\ pending = {} /\ ~effectDue /\ ~Load) =>
              UNCHANGED <<messages, stored, loading, pending, nextId>> ]_vars

C16_Witness ==
    /\ mounted
    /\ ~disabled
    /\ pending = {}
    /\ input = In_blank
    /\ Len(messages) = 2

----------------------------------------------------------------------------
\* the text begins with one of the three slash commands
BeginsWithCommand(txt) ==
    \E token \in {CMD_weather, CMD_calc, CMD_define} : startsWith(txt, token)

(* C17: an input that already is an explicit slash command is dispatched    *)
(* as typed: for every text beginning with '/weather', '/calc' or '/define' *)
(* the rewriter returns null and the command dispatched is the trimmed      *)
(* text, whatever the argument contains.                                    *)
C17_SlashCommandAsTyped ==
    (parsed # NotRun /\ BeginsWithCommand(text)) =>
        /\ parsed = Null
        /\ commandOf(text) = trim(text)

====
